---- MODULE Spec2Model ----
(***************************************************************************)
(* IntelliSQL (src/Project Files/app.py): a Streamlit script that turns an *)
(* English question into SQL with a remote generation model and executes   *)
(* the statement on the SQLite file data.db.                               *)
(*                                                                         *)
(* One behaviour of the model is the life of one server process: the       *)
(* script is run from the top on every user interaction (StartRun), and    *)
(* the database file and the connections left open live across the runs.   *)
(*                                                                         *)
(* Strings are sequences of atoms.  The atom "BT" is the backtick, and it, *)
(* "s", "q", "l", " " and "\n" are single characters (SANY cannot lex a    *)
(* backtick inside a string); every other atom stands for a run of         *)
(* characters that holds no backtick, does not begin with "s" and neither  *)
(* begins nor ends with white space, so that str.strip and str.replace act *)
(* on the sequences as they act on the text.                               *)
(***************************************************************************)
EXTENDS Integers, Sequences, FiniteSets, TLC

\* ------------------------------------------------------------------ bounds
\* Longest Students table the database file starts with.
MaxRows == 2
\* Connections that may linger open before the model starts another run.
MaxOpen == 2
\* Longest fenced body drawn for the fence-stripping specification.
MaxBody == 3

\* ------------------------------------------------------------------- state
VARIABLES
    pc,         \* where the script run stands; "idle" between two runs
    ran,        \* a script run has ended since the process started
    API_KEY,     \* API_KEY of this run (line 10)
    configured, \* genai.configure and GenerativeModel were run (15-17)
    choice,     \* the sidebar radio's value (line 120)
    question,   \* the text input's value (line 95)
    submit,     \* the button's value (line 96)
    response,   \* response.text (line 43)
    sql,        \* what get_sql_query returned (line 100)
    executed,   \* the string given to cursor.execute (line 53)
    cursor,     \* the rows the cursor holds after execute
    rows,       \* what execute_sql returned (line 104)
    txn,        \* the connection's open, uncommitted transaction
    exc,        \* the exception in flight
    shown,      \* what this run has put on the page
    netCalls,   \* generate_content calls of this run
    opened,     \* sqlite3.connect calls of this run
    closed,     \* conn.close calls of this run
    fault,      \* the database failed under this run (I/O error, lock)
    diskBefore, \* the database file when this run connected
    disk,       \* the database file data.db: what is committed
    openConns,  \* connections of the process that are open
    prev        \* the submission before this run's

runVars == <<API_KEY, configured, choice, question, submit, response, sql,
             executed, cursor, rows, txn, exc, shown, netCalls, opened, closed,
             fault, diskBefore>>
vars == <<pc, ran, runVars, disk, openConns, prev>>

\* ----------------------------------------------------------------- strings
BT == "BT"
SP == " "
NL == "\n"
NoStr == <<"<none>">>
Whitespace == {SP, NL}

RECURSIVE LStrip(_)
\* str.strip, the leading half: drop white space from the left.
LStrip(s) ==
    IF s # <<>> /\ Head(s) \in Whitespace THEN LStrip(Tail(s)) ELSE s

RECURSIVE RStrip(_)
\* str.strip, the trailing half: drop white space from the right.
RStrip(s) ==
    IF s # <<>> /\ s[Len(s)] \in Whitespace
    THEN RStrip(SubSeq(s, 1, Len(s) - 1))
    ELSE s

\* str.strip().
Strip(s) == RStrip(LStrip(s))

RECURSIVE Remove(_, _)
\* str.replace(pat, ""): one pass from the left over non-overlapping matches.
Remove(s, pat) ==
    IF Len(s) < Len(pat) THEN s
    ELSE IF SubSeq(s, 1, Len(pat)) = pat
         THEN Remove(SubSeq(s, Len(pat) + 1, Len(s)), pat)
         ELSE <<Head(s)>> \o Remove(Tail(s), pat)

Fence == <<BT, BT, BT>>
FenceSql == <<BT, BT, BT, "s", "q", "l">>

\* A plausible slip: only the tagged opening fence is removed.
CleanOpeningOnly(text) == Strip(Remove(Strip(text), FenceSql))

\* Lines 43-46: response.text.strip(), the two replace calls, strip().
Clean(text) == Strip(Remove(Remove(Strip(text), FenceSql), Fence))

HasBacktick(s) == \E i \in 1..Len(s) : s[i] = BT

\* ------------------------------------------------------------ the database
\* Rows of the Students table: (name, class, marks, company), line 23.
RowValues == { <<"a", "MCom", 90, "x">>, <<"b", "BCom", 60, "y">> }
InsertedRow == <<"c", "MCom", 70, "z">>

Tables(n) == UNION { [1..k -> RowValues] : k \in 0..n }

\* The statements the generation model may answer with.
CountText == <<"SELECT COUNT(*) FROM Students;">>
CountQuotedText == <<"SELECT COUNT(*) FROM", SP, BT, "Students", BT>>
SelectText == <<"SELECT * FROM Students WHERE class='MCom';">>
InsertText == <<"INSERT INTO Students VALUES('c','MCom',70,'z')">>
DeleteText == <<"DELETE FROM Students WHERE class='MCom'">>
UpdateText == <<"UPDATE Students SET class='MCom'">>
DropText == <<"DROP TABLE Students">>
ProseText == <<"I cannot answer that.">>

\* What SQLite prepares the text as (cursor.execute, line 53).  An empty
\* text is accepted and does nothing; any other text is a syntax error.
Parse(text) ==
    CASE text = <<>> -> "empty"
      [] text \in {CountText, CountQuotedText} -> "count"
      [] text = SelectText -> "select"
      [] text = InsertText -> "insert"
      [] text = DeleteText -> "delete"
      [] text = UpdateText -> "update"
      [] text = DropText -> "drop"
      [] OTHER -> "syntax_error"

Reads == {"count", "select"}
\* INSERT, UPDATE and DELETE: sqlite3 opens a transaction before them.
Dml == {"insert", "delete", "update"}
Writes == Dml \cup {"drop"}
NeedsTable == Reads \cup Writes

IsMCom(r) == r[2] = "MCom"
NotMCom(r) == r[2] # "MCom"

\* The rows the statement yields on table t.
ResultRows(kind, t) ==
    CASE kind = "count" -> << <<Len(t)>> >>
      [] kind = "select" -> SelectSeq(t, IsMCom)
      [] OTHER -> <<>>

\* The database after the statement has taken effect on database db.
Effect(kind, db) ==
    CASE kind = "insert" -> [db EXCEPT !.rows = Append(@, InsertedRow)]
      [] kind = "delete" -> [db EXCEPT !.rows = SelectSeq(@, NotMCom)]
      [] kind = "update" ->
           [db EXCEPT !.rows = [i \in 1..Len(@) |->
                                   <<@[i][1], "MCom", @[i][3], @[i][4]>>]]
      [] kind = "drop" -> [exists |-> FALSE, rows |-> <<>>]
      [] OTHER -> db

NoTxn == [active |-> FALSE, db |-> [exists |-> FALSE, rows |-> <<>>]]

\* A plausible slip: a fetchone before the fetchall loses the first row.
FetchAllButFirst(c) == IF c = <<>> THEN c ELSE Tail(c)

\* A plausible slip: the rows are added to what the submission before left
\* (a list kept across the runs).
FetchAllKeepsEarlier(c) == (IF prev.set THEN prev.rows ELSE <<>>) \o c

\* Line 54: cursor.fetchall() returns every pending row.
FetchAll(c) == c

\* A plausible slip: conn.commit() before conn.close().
CommitThenClose(db, t) == IF t.active THEN t.db ELSE db

\* Line 55: conn.close() with no commit: SQLite rolls the connection's open
\* transaction back, the file keeps what was committed.
CloseWithoutCommit(db, t) == db

\* A plausible repair that the code lacks: try/finally with conn.close().
ClosesInFinally(n) == n + 1

\* Lines 53-55: when execute or fetchall raises, line 55 is not reached: the
\* close calls made stay what they were.
ClosesOnRaise(n) == n

\* ------------------------------------------------------------- exceptions
RemoteError == "RemoteCallError"
EmptyError == "ValueError"
DbError == "OperationalError"
NoExc == "none"
\* The classes below Exception that the two steps raise.
ExceptionClasses == {RemoteError, EmptyError, DbError}

\* A plausible slip: except sqlite3.Error.
CatchesDbOnly(e) == e = DbError

\* Line 108: except Exception.
Catches(e) == e \in ExceptionClasses

\* ------------------------------------------------------------------ inputs
NoKey == "<unset>"
Keys == {NoKey, "", "key"}

\* A plausible slip: if API_KEY is None.
KeyMissingNoneOnly(k) == k = NoKey

\* Line 11: not API_KEY, true of None and of the empty string.
KeyMissing(k) == k = NoKey \/ k = ""

Pages == {"Home", "About", "Intelligent Query Assistance"}
QueryPage == "Intelligent Query Assistance"
NoPage == "<none>"
Questions == {"", "q1", "q2"}

Fenced(tag, body) == Fence \o tag \o <<NL>> \o body \o <<NL>> \o Fence

\* The texts the remote model may answer with.
Responses ==
    { CountText, SelectText, InsertText, DeleteText, UpdateText, DropText,
      ProseText, <<SP>>,
      Fenced(<<"s", "q", "l">>, CountText) \o <<NL>>,
      Fenced(<<"s", "q", "l">>, CountQuotedText),
      Fenced(<<>>, DropText),
      Fenced(<<"s", "q", "l", "ite">>, SelectText) }

\* A plausible slip: if submit, without the test of the question.
GatePressOnly(pressed, q) == pressed

\* Line 98: if submit and question.
Gate(pressed, q) == pressed /\ q # ""

\* A plausible slip: the raw response is executed, not the cleaned string.
SqlArgRaw(translated, text) == text

\* Line 104: execute_sql(sql, "data.db") is given the translator's result.
SqlArg(translated, text) == translated

\* What generate_content and response.text may do (lines 42-43): raise,
\* hold no text (response.text raises ValueError), or give a text.
RaiseOutcome == <<"<raise>">>
EmptyOutcome == <<"<empty>">>
RemoteOutcomes == Responses \cup {RaiseOutcome, EmptyOutcome}

NoShown == [page |-> NoPage, error |-> "none", sql |-> NoStr, table |-> FALSE]
NoPrev == [set |-> FALSE, q |-> "", raw |-> NoStr, kind |-> "none",
           rows |-> <<>>, fault |-> FALSE]
NoDisk == [exists |-> FALSE, rows |-> <<>>]

\* The values a run starts with.
Fresh ==
    /\ API_KEY = NoKey
    /\ configured = FALSE
    /\ choice = NoPage
    /\ question = ""
    /\ submit = FALSE
    /\ response = NoStr
    /\ sql = NoStr
    /\ executed = NoStr
    /\ cursor = <<>>
    /\ rows = <<>>
    /\ txn = NoTxn
    /\ exc = NoExc
    /\ shown = NoShown
    /\ netCalls = 0
    /\ opened = 0
    /\ closed = 0
    /\ fault = FALSE
    /\ diskBefore = NoDisk

\* The file data.db is not made by the program: it holds a Students table
\* of any content, or none.
Init ==
    /\ pc = "idle"
    /\ ran = FALSE
    /\ Fresh
    /\ disk \in {[exists |-> TRUE, rows |-> t] : t \in Tables(MaxRows)}
                \cup {NoDisk}
    /\ openConns = 0
    /\ prev = NoPrev

\* The last run as a submission, when it was one.
LastSubmission ==
    IF netCalls > 0
    THEN [set |-> TRUE, q |-> question, raw |-> response,
          kind |-> IF shown.table THEN "result" ELSE "error",
          rows |-> rows, fault |-> fault]
    ELSE prev

\* Streamlit runs the script from the top on every interaction; lines 8-10
\* read the credential anew.
StartRun ==
    /\ pc = "idle"
    /\ openConns < MaxOpen
    /\ \E k \in Keys : API_KEY' = k
    /\ prev' = LastSubmission
    /\ configured' = FALSE
    /\ choice' = NoPage
    /\ question' = ""
    /\ submit' = FALSE
    /\ response' = NoStr
    /\ sql' = NoStr
    /\ executed' = NoStr
    /\ cursor' = <<>>
    /\ rows' = <<>>
    /\ txn' = NoTxn
    /\ exc' = NoExc
    /\ shown' = NoShown
    /\ netCalls' = 0
    /\ opened' = 0
    /\ closed' = 0
    /\ fault' = FALSE
    /\ diskBefore' = NoDisk
    /\ pc' = "startup"
    /\ UNCHANGED <<ran, disk, openConns>>

\* Lines 11-17: st.error and st.stop without a credential, else the client
\* is configured.
CheckKey ==
    /\ pc = "startup"
    /\ IF KeyMissing(API_KEY)
       THEN /\ shown' = [shown EXCEPT !.error = "startup"]
            /\ pc' = "idle"
            /\ ran' = TRUE
            /\ UNCHANGED configured
       ELSE /\ configured' = TRUE
            /\ pc' = "main"
            /\ UNCHANGED <<shown, ran>>
    /\ UNCHANGED <<API_KEY, choice, question, submit, response, sql, executed, cursor,
                   rows, txn, exc, netCalls, opened, closed, fault, diskBefore,
                   disk, openConns, prev>>

\* Lines 112-130: main reads the sidebar and renders Home or About, or goes
\* on to page_query.
main ==
    /\ pc = "main"
    /\ \E c \in Pages :
         /\ choice' = c
         /\ shown' = [shown EXCEPT !.page = c]
         /\ IF c = QueryPage
            THEN pc' = "query" /\ UNCHANGED ran
            ELSE pc' = "idle" /\ ran' = TRUE
    /\ UNCHANGED <<API_KEY, configured, question, submit, response, sql, executed,
                   cursor, rows, txn, exc, netCalls, opened, closed, fault,
                   diskBefore, disk, openConns, prev>>

\* Lines 92-98: page_query reads the two widgets and tests them.
page_query ==
    /\ pc = "query"
    /\ \E q \in Questions, b \in BOOLEAN :
         /\ question' = q
         /\ submit' = b
         /\ IF Gate(b, q)
            THEN pc' = "translate" /\ UNCHANGED ran
            ELSE pc' = "idle" /\ ran' = TRUE
    /\ UNCHANGED <<API_KEY, configured, choice, response, sql, executed, cursor, rows,
                   txn, exc, shown, netCalls, opened, closed, fault, diskBefore,
                   disk, openConns, prev>>

\* Lines 41-47, called at line 100: one generate_content call, then the
\* cleaning of its text.
get_sql_query ==
    /\ pc = "translate"
    /\ netCalls' = netCalls + 1
    /\ \E r \in RemoteOutcomes :
         CASE r = RaiseOutcome ->
                exc' = RemoteError /\ pc' = "except" /\ UNCHANGED <<response, sql>>
           [] r = EmptyOutcome ->
                exc' = EmptyError /\ pc' = "except" /\ UNCHANGED <<response, sql>>
           [] OTHER ->
                response' = r /\ sql' = Clean(r) /\ pc' = "show_sql" /\ UNCHANGED exc
    /\ UNCHANGED <<ran, API_KEY, configured, choice, question, submit, executed,
                   cursor, rows, txn, shown, opened, closed, fault, diskBefore,
                   disk, openConns, prev>>

\* Lines 101-102: st.success and st.code show the generated statement.
ShowSql ==
    /\ pc = "show_sql"
    /\ shown' = [shown EXCEPT !.sql = sql]
    /\ pc' = "connect"
    /\ UNCHANGED <<ran, API_KEY, configured, choice, question, submit, response, sql,
                   executed, cursor, rows, txn, exc, netCalls, opened, closed,
                   fault, diskBefore, disk, openConns, prev>>

\* Lines 51-52 of execute_sql, called at line 104: a new connection and its
\* cursor.
Connect ==
    /\ pc = "connect"
    /\ opened' = opened + 1
    /\ openConns' = openConns + 1
    /\ executed' = SqlArg(sql, response)
    /\ diskBefore' = disk
    /\ pc' = "execute"
    /\ UNCHANGED <<ran, API_KEY, configured, choice, question, submit, response, sql,
                   cursor, rows, txn, exc, shown, netCalls, closed, fault,
                   disk, prev>>

\* Line 53: cursor.execute(sql).  It raises on a text SQLite cannot prepare,
\* on a missing table and on a database fault.  INSERT, UPDATE and DELETE
\* run inside a transaction that sqlite3 opens and leaves open; DROP runs in
\* autocommit and is on the file at once.
Execute ==
    /\ pc = "execute"
    /\ \E f \in BOOLEAN :
         LET kind == Parse(executed) IN
         IF f \/ kind = "syntax_error" \/ (kind \in NeedsTable /\ ~disk.exists)
         THEN /\ exc' = DbError
              /\ fault' = f
              /\ closed' = ClosesOnRaise(closed)
              /\ openConns' = openConns - (closed' - closed)
              /\ pc' = "except"
              /\ UNCHANGED <<cursor, txn, disk>>
         ELSE /\ cursor' = ResultRows(kind, disk.rows)
              /\ txn' = IF kind \in Dml
                        THEN [active |-> TRUE, db |-> Effect(kind, disk)]
                        ELSE txn
              /\ disk' = IF kind = "drop" THEN Effect(kind, disk) ELSE disk
              /\ pc' = "fetch"
              /\ UNCHANGED <<exc, fault, closed, openConns>>
    /\ UNCHANGED <<ran, API_KEY, configured, choice, question, submit, response, sql,
                   executed, rows, shown, netCalls, opened, diskBefore, prev>>

\* Line 54: cursor.fetchall(), which may fail while it steps through the
\* rows of a SELECT.
Fetch ==
    /\ pc = "fetch"
    /\ \E f \in BOOLEAN :
         IF f /\ Parse(executed) \in Reads
         THEN /\ exc' = DbError
              /\ fault' = TRUE
              /\ closed' = ClosesOnRaise(closed)
              /\ openConns' = openConns - (closed' - closed)
              /\ pc' = "except"
              /\ UNCHANGED rows
         ELSE /\ rows' = FetchAll(cursor)
              /\ pc' = "close"
              /\ UNCHANGED <<exc, fault, closed, openConns>>
    /\ UNCHANGED <<ran, API_KEY, configured, choice, question, submit, response, sql,
                   executed, cursor, txn, shown, netCalls, opened, diskBefore,
                   disk, prev>>

\* Lines 55-56: conn.close() and return rows.
Close ==
    /\ pc = "close"
    /\ disk' = CloseWithoutCommit(disk, txn)
    /\ txn' = NoTxn
    /\ closed' = closed + 1
    /\ openConns' = openConns - 1
    /\ pc' = "show_result"
    /\ UNCHANGED <<ran, API_KEY, configured, choice, question, submit, response, sql,
                   executed, cursor, rows, exc, shown, netCalls, opened, fault,
                   diskBefore, prev>>

\* Lines 105-106: st.subheader and st.table show the rows.
ShowResult ==
    /\ pc = "show_result"
    /\ shown' = [shown EXCEPT !.table = TRUE]
    /\ pc' = "idle"
    /\ ran' = TRUE
    /\ UNCHANGED <<API_KEY, configured, choice, question, submit, response, sql,
                   executed, cursor, rows, txn, exc, netCalls, opened, closed,
                   fault, diskBefore, disk, openConns, prev>>

\* Lines 108-109: the except clause shows the message when it catches the
\* exception.  A connection that execute_sql left open loses its last
\* reference here; whether the interpreter closes it now (reference counting)
\* or later (Finalize) is up to the interpreter.
Handler ==
    /\ pc = "except"
    /\ shown' = [shown EXCEPT
                   !.error = IF Catches(exc) THEN "query" ELSE "uncaught"]
    /\ \E reclaimed \in BOOLEAN :
         openConns' = IF reclaimed /\ opened > closed
                      THEN openConns - 1
                      ELSE openConns
    /\ pc' = "idle"
    /\ ran' = TRUE
    /\ UNCHANGED <<API_KEY, configured, choice, question, submit, response, sql,
                   executed, cursor, rows, txn, exc, netCalls, opened, closed,
                   fault, diskBefore, disk, prev>>

\* The interpreter closes a connection no frame refers to any more.
Finalize ==
    /\ pc = "idle"
    /\ openConns > 0
    /\ openConns' = openConns - 1
    /\ UNCHANGED <<pc, ran, runVars, disk, prev>>

Next ==
    \/ StartRun
    \/ CheckKey
    \/ main
    \/ page_query
    \/ get_sql_query
    \/ ShowSql
    \/ Connect
    \/ Execute
    \/ Fetch
    \/ Close
    \/ ShowResult
    \/ Handler
    \/ Finalize

Spec == Init /\ [][Next]_vars

\* --------------------------------------------- fence stripping on its own
\* get_sql_query's cleaning applied to every fenced response over a small
\* alphabet: the fence, an optional language tag, a line break, the body, a
\* line break, the fence, with or without a line break around it all.
FenceAtoms == {BT, "s", "q", "l", NL, "x"}
Bodies(n) == UNION { [1..k -> FenceAtoms] : k \in 0..n }
Tags == { <<>>, <<"s", "q", "l">>, <<"s", "q", "l", "ite">>, <<"x">> }
Pads == { <<>>, <<NL>> }
FencedInputs ==
    { lead \o Fenced(tag, body) \o trail :
        lead \in Pads, trail \in Pads, tag \in Tags, body \in Bodies(MaxBody) }

InitFence ==
    /\ pc = "fence_in"
    /\ ran = FALSE
    /\ API_KEY = "key"
    /\ configured = TRUE
    /\ choice = QueryPage
    /\ question = "q1"
    /\ submit = TRUE
    /\ response \in FencedInputs
    /\ sql = NoStr
    /\ executed = NoStr
    /\ cursor = <<>>
    /\ rows = <<>>
    /\ txn = NoTxn
    /\ exc = NoExc
    /\ shown = NoShown
    /\ netCalls = 1
    /\ opened = 0
    /\ closed = 0
    /\ fault = FALSE
    /\ diskBefore = NoDisk
    /\ disk = NoDisk
    /\ openConns = 0
    /\ prev = NoPrev

\* Lines 43-47 on the response drawn.
FenceClean ==
    /\ pc = "fence_in"
    /\ sql' = Clean(response)
    /\ pc' = "fence_out"
    /\ UNCHANGED <<ran, API_KEY, configured, choice, question, submit, response,
                   executed, cursor, rows, txn, exc, shown, netCalls, opened,
                   closed, fault, diskBefore, disk, openConns, prev>>

NextFence == FenceClean

SpecFence == InitFence /\ [][NextFence]_vars

\* The text, white space around it aside, opens with the fence and a
\* language tag and ends with the fence.
IsWrapped(text) ==
    LET t == Strip(text) IN
    /\ Len(t) >= 7
    /\ SubSeq(t, 1, 3) = Fence
    /\ SubSeq(t, Len(t) - 2, Len(t)) = Fence
    /\ t[4] \notin {BT, NL, SP}

\* What stands between the two fences: the tag and the body.
InnerOf(text) == LET t == Strip(text) IN SubSeq(t, 4, Len(t) - 3)

\* ------------------------------------------------------------------ claims
\* The run has ended and the page stands as the run left it.
RunEnded == pc = "idle" /\ ran
Pressed == submit /\ question # ""
NoCredential == API_KEY \in {NoKey, ""}

\* C1: a run that starts with GOOGLE_API_KEY absent or empty shows the
\* start-up error and halts at line 13: the client is never configured, no
\* generation call is made, no page is rendered, no connection is opened.
C1_NoCallWithoutKey ==
    (NoCredential /\ (pc # "idle" \/ ran)) =>
        /\ pc \in {"startup", "idle"}
        /\ ~configured
        /\ netCalls = 0
        /\ opened = 0
        /\ shown.page = NoPage
        /\ (pc = "idle" => shown.error = "startup")

C1_Witness ==
    RunEnded /\ API_KEY = "" /\ shown.error = "startup" /\ netCalls = 0

\* C2: every exception of get_sql_query or execute_sql is caught at line
\* 108 and shown as the query screen's error, none escapes page_query; and
\* a submission that follows a failed one makes its generation call and,
\* once translated, its execution again.
C2_CaughtAndRetryable ==
    /\ shown.error # "uncaught"
    /\ (RunEnded /\ exc # NoExc) => (shown.error = "query" /\ ~shown.table)
    /\ (RunEnded /\ Pressed /\ prev.set /\ prev.kind = "error") =>
          /\ netCalls = 1
          /\ (sql # NoStr => (opened = 1 /\ executed = sql))
          /\ (exc = NoExc => shown.table)

C2_Witness ==
    /\ RunEnded /\ Pressed
    /\ prev.set /\ prev.kind = "error" /\ prev.raw = NoStr
    /\ shown.table /\ shown.error = "none"

\* C3 as stated: after execute_sql returns from a write (INSERT, UPDATE,
\* DELETE or DROP), the database file is the file before with the
\* statement's effect.
C3_WriteMutatesFile ==
    (pc = "show_result" /\ Parse(executed) \in Writes) =>
        disk = Effect(Parse(executed), diskBefore)

\* C3 amended: a write is executed with no step between the translation
\* and the execution.  A DROP is on the file when execute_sql returns.  An
\* INSERT, UPDATE or DELETE takes effect in the connection's transaction
\* only, which close() discards: the file is as before.
C3_OnlyDropReachesFile ==
    LET kind == Parse(executed) IN
    /\ (pc \in {"fetch", "close"} /\ kind \in Dml) =>
          /\ txn.active
          /\ txn.db = Effect(kind, diskBefore)
          /\ disk = diskBefore
    /\ (pc = "show_result" /\ kind \in Dml) => disk = diskBefore
    /\ (pc = "show_result" /\ kind = "drop") =>
          /\ disk = Effect(kind, diskBefore)
          /\ disk # diskBefore

C3_Witness ==
    /\ pc = "show_result"
    /\ Parse(executed) \in Dml
    /\ Effect(Parse(executed), diskBefore) # diskBefore
    /\ disk = diskBefore

\* C4: when a run that reached the executor has ended, it opened one
\* connection and closed it, and no connection of the process is open
\* (stated for the runs under which the database did not fail).
C4_ClosedBeforeReturn ==
    (RunEnded /\ opened >= 1 /\ ~fault) =>
        (opened = 1 /\ closed = 1 /\ openConns = 0)

\* C5 as stated: every button press makes exactly one generation call.
C5_EachPress ==
    (RunEnded /\ configured /\ submit) => netCalls = 1

\* C5 amended: every button press with a question typed makes exactly one
\* generation call before the run ends, also when it fails; the executor is
\* invoked at most once, only after the translator has returned, once it
\* has returned, and with the very string it returned.
C5_EachSubmission ==
    /\ netCalls <= 1
    /\ opened <= 1
    /\ (RunEnded /\ configured /\ Pressed) => netCalls = 1
    /\ opened = 1 => (sql # NoStr /\ executed = sql /\ sql = Clean(response))
    /\ (RunEnded /\ sql # NoStr) => opened = 1

C5_Witness ==
    /\ RunEnded /\ Pressed
    /\ netCalls = 1 /\ opened = 1
    /\ executed = sql /\ sql # response
    /\ shown.table

\* C6 as stated: the cleaning of a response wrapped in the fence with a
\* language tag leaves no backtick.
C6_NoBacktickLeft ==
    (pc = "fence_out" /\ IsWrapped(response)) => ~HasBacktick(sql)

\* C6 amended: the cleaning of a response wrapped in the fence with a
\* language tag, whose text between the fences holds no backtick, leaves no
\* backtick.
C6_NoBacktickWhenBodyHasNone ==
    (pc = "fence_out" /\ IsWrapped(response) /\ ~HasBacktick(InnerOf(response))) =>
        ~HasBacktick(sql)

C6_Witness ==
    /\ pc = "fence_out"
    /\ IsWrapped(response)
    /\ ~HasBacktick(InnerOf(response))
    /\ sql # <<>>
    /\ Len(sql) + 6 <= Len(response)

\* This run and the submission before it had the same question and the same
\* completion, and the database failed under neither.
SameAgain ==
    /\ RunEnded /\ Pressed
    /\ prev.set /\ prev.q = question /\ prev.raw = response
    /\ ~fault /\ ~prev.fault

SameOutcome ==
    /\ prev.kind = (IF shown.table THEN "result" ELSE "error")
    /\ prev.rows = rows

C8_CountReturnsK ==
    (pc = "show_result" /\ executed = CountText) =>
        /\ diskBefore.exists
        /\ rows = << <<Len(diskBefore.rows)>> >>
        /\ disk = diskBefore

C8_Witness ==
    /\ pc = "show_result" /\ executed = CountText
    /\ Len(diskBefore.rows) = 2 /\ rows = << <<2>> >>

\* C9: when execute or fetchall raises, the exception reaches page_query
\* with the connection of that invocation opened and never closed: close is
\* called on the success path only.
C9_ErrorLeavesConnOpen ==
    /\ (pc = "except" /\ exc = DbError) =>
          (opened = 1 /\ closed = 0 /\ openConns >= 1)
    /\ (RunEnded /\ exc = DbError) => (opened = 1 /\ closed = 0)
    /\ closed = 1 => exc = NoExc

C9_Witness ==
    /\ pc = "except" /\ exc = DbError
    /\ cursor # <<>>
    /\ opened = 1 /\ closed = 0 /\ openConns >= 1

\* C10: a generation call is made and a connection opened only in a run on
\* the query screen with the button pressed and a question typed; a run on
\* Home or About, without a press, or with a press and no question, makes
\* no call, opens no connection and shows neither an error nor a result.
C10_Gated ==
    /\ (netCalls > 0 \/ opened > 0) =>
          (choice = QueryPage /\ submit /\ question # "")
    /\ (RunEnded /\ configured /\ ~(choice = QueryPage /\ Pressed)) =>
          /\ netCalls = 0
          /\ opened = 0
          /\ shown.error = "none"
          /\ shown.sql = NoStr
          /\ ~shown.table

C10_Witness ==
    /\ RunEnded /\ choice = QueryPage /\ submit /\ question = ""
    /\ netCalls = 0 /\ opened = 0 /\ shown = [NoShown EXCEPT !.page = QueryPage]

====
